---- MODULE Spec2Model ----
(***************************************************************************)
(* Token-addressed temporary file sharing: the share registry              *)
(* (app/models/file_share.py), the eviction sweep (app/utils/cleanup.py),  *)
(* the API upload (app/web/api.py) and the chunked upload handler          *)
(* (app/web/admin.py), as a state machine over the registry table, the     *)
(* upload root, the chunk staging area and the request handlers in flight. *)
(***************************************************************************)
EXTENDS Integers, Sequences, FiniteSets, TLC

\* ------------------------------------------------------------------ bounds
NumTokens == 1
NumData == 2
MaxTime == 1
MaxChunks == 2
NumHandlers == 2
MaxRequests == 3
MaxFiles == 3
MaxDownloads == 2
MaxThreads == 2

TokenTable == <<"tok1", "tok2", "tok3", "tok4">>
Tokens == {TokenTable[i] : i \in 1..NumTokens}
\* file names as secure_filename returns them
FileNames == {"a.txt", "b.txt"}
\* file names as a client sends them
RawNames == {"a.txt", "../secret", "..", "d/a.txt"}
Datas == 1..NumData
\* retention hours of the settings form and the share-token request
Retentions == {0, 1}
Recipients == {"", "r@x"}
\* the non-directory entries the deployment keeps in the upload root
StrayFiles == {".gitkeep"}
Handlers == 1..NumHandlers
\* chunkNumber and totalChunks as int() returns them: any integer
ChunkNumbers == 0..(MaxChunks + 1)
TotalCounts == 0..MaxChunks

VARIABLES
    now,        \* datetime.utcnow(), in hours
    db,         \* table file_shares: token -> row
    fs,         \* UPLOAD_FOLDER: directory name -> (file name -> blob)
    rootFiles,  \* UPLOAD_FOLDER: its non-directory entries
    used,       \* tokens generate_token() has returned so far
    sweep,      \* the running cleanup_expired_files() call, if any
    lastVisit,  \* what the sweep did with the entry it visited last
    staging,    \* <tmp>/chunked_uploads: fileId -> its chunk and output files
    req,        \* the upload_chunk call each request handler is in
    written,    \* the data last written for each chunk of each fileId
    requests,   \* the number of chunk requests received so far
    saved_files,  \* what the last save_uploaded_files call returned
    dl,         \* the download request each request handler is in
    sched,      \* the CleanupScheduler object, its threads and its callers
    settings    \* table settings: the auto_cleanup row

regVars == <<now, db, fs, rootFiles, used>>
schedVars == <<sched, settings>>
sweepVars == <<sweep, lastVisit, sched, settings>>
chunkVars == <<staging, req, written, requests>>
dlVars == <<saved_files, dl>>
vars == <<now, db, fs, rootFiles, used, sweep, lastVisit,
          staging, req, written, requests, saved_files, dl, sched, settings>>

\* remove key k from function f
Drop(f, k) == [x \in DOMAIN f \ {k} |-> f[x]]
\* f with k bound to v (added or replaced)
Put(f, k, v) == [x \in DOMAIN f \cup {k} |-> IF x = k THEN v ELSE f[x]]
Restrict(f, S) == [x \in S |-> f[x]]
EmptyMap == [x \in {} |-> 0]

\* ------------------------------------------------------------ file names
\* the components of a path string, split at the separator
PathParts(s) ==
    CASE s = "" -> <<>>
      [] s = ".." -> <<"..">>
      [] s = "../secret" -> <<"..", "secret">>
      [] s = "d/a.txt" -> <<"d", "a.txt">>
      [] OTHER -> <<s>>

\* a component that strip("._") leaves nothing of
DotOnly(c) == c \in {"", ".", ".."}

RECURSIVE StripDots(_)
\* the components without the leading and trailing ones that strip("._")
\* removes
StripDots(p) ==
    IF p = <<>> THEN p
    ELSE IF DotOnly(Head(p)) THEN StripDots(Tail(p))
    ELSE IF DotOnly(p[Len(p)]) THEN StripDots(SubSeq(p, 1, Len(p) - 1))
    ELSE p

RECURSIVE JoinParts(_)
\* "_".join(parts)
JoinParts(p) ==
    IF p = <<>> THEN ""
    ELSE IF Len(p) = 1 THEN p[1]
    ELSE p[1] \o "_" \o JoinParts(Tail(p))

\* a mutation of secure_filename that returns the name as sent
SecureFilenameRaw(s) == s

\* werkzeug's secure_filename: every separator becomes a blank, the words
\* are joined with "_", and leading and trailing dots and underscores are
\* stripped; "" when nothing is left
secure_filename(s) == JoinParts(StripDots(PathParts(s)))

\* where os.path.join(<token directory>, name) points: a file in the
\* directory, a file in its parent (the upload root), or something a file
\* cannot be written to (a directory, or a path with a missing directory)
Target(name) ==
    LET p == PathParts(name) IN
    IF Len(p) = 1 /\ ~DotOnly(p[1]) THEN [kind |-> "inside", name |-> p[1]]
    ELSE IF Len(p) = 2 /\ p[1] = ".." /\ ~DotOnly(p[2])
    THEN [kind |-> "root", name |-> p[2]]
    ELSE [kind |-> "dir", name |-> ""]

\* a file written at os.path.join(<token directory>, name): the token
\* directories after the write
WriteFs(f, tok, name, content) ==
    IF Target(name).kind = "inside"
    THEN [f EXCEPT ![tok] = Put(@, Target(name).name, content)]
    ELSE f
\* and the non-directory entries of the upload root after it
WriteRoot(rf, name) ==
    IF Target(name).kind = "root" THEN rf \cup {Target(name).name} ELSE rf
\* whether a file can be written there
CanWrite(name) == Target(name).kind # "dir"

\* the name of the file chunk number i is staged in: f"chunk_{i:05d}"
ChunkNameTable ==
    <<"chunk_00000", "chunk_00001", "chunk_00002", "chunk_00003",
      "chunk_00004", "chunk_00005", "chunk_00006">>
ChunkName(i) == ChunkNameTable[i + 1]

\* ------------------------------------------------------------ FileShare
NoShare == [found |-> FALSE]

\* the FileShare object built from a row
FileShareObj(t, row) ==
    [found |-> TRUE, token |-> t,
     recipient_email |-> row.recipient_email,
     files |-> row.files,
     created_at |-> row.created_at,
     expires_at |-> row.expires_at,
     downloaded |-> row.downloaded,
     download_count |-> row.download_count,
     downloaded_files |-> row.downloaded_files]

\* FileShare.get: None when there is no row, and None as well when the
\* query raises (the except branch returns None)
Get(t, dbFail) ==
    IF dbFail \/ t \notin DOMAIN db THEN NoShare ELSE FileShareObj(t, db[t])

\* a mutation of is_expired that forgets the recipient test
IsExpiredNoPin(share, t) == t > share.expires_at

\* FileShare.is_expired at time t (expires_at is NOT NULL in the table and
\* always set by create, so the "expires_at missing" branch is not taken)
is_expired(share, t) ==
    IF share.recipient_email = "" THEN FALSE
    ELSE t > share.expires_at

\* FileShare.generate_token: secrets.token_urlsafe(32), a token never
\* returned before (the next unused one of the table; "" when the model's
\* tokens are used up)
generate_token ==
    IF Cardinality(used) < NumTokens THEN TokenTable[Cardinality(used) + 1]
    ELSE ""

\* a mutation of create that stores the creation time as the expiry
NewRowNoRetention(recipient, files, retention) ==
    [recipient_email |-> recipient, files |-> files,
     created_at |-> now, expires_at |-> now,
     downloaded |-> FALSE, download_count |-> 0, downloaded_files |-> <<>>]

\* FileShare.create: INSERT of a fresh token
NewRow(recipient, files, retention) ==
    [recipient_email |-> recipient, files |-> files,
     created_at |-> now, expires_at |-> now + retention,
     downloaded |-> FALSE, download_count |-> 0, downloaded_files |-> <<>>]

\* a mutation of save that inserts the row when there is none
SaveUpsert(d, share) ==
    Put(d, share.token,
        [recipient_email |-> share.recipient_email, files |-> share.files,
         created_at |-> share.created_at, expires_at |-> share.expires_at,
         downloaded |-> share.downloaded,
         download_count |-> share.download_count,
         downloaded_files |-> share.downloaded_files])

\* FileShare.save: UPDATE ... WHERE token = ? of the five saved columns
\* from the in-memory object; no row, no change
Save(d, share) ==
    IF share.token \in DOMAIN d
    THEN [d EXCEPT ![share.token] =
            [@ EXCEPT !.files = share.files,
                      !.downloaded = share.downloaded,
                      !.download_count = share.download_count,
                      !.expires_at = share.expires_at,
                      !.downloaded_files = share.downloaded_files]]
    ELSE d

\* ---------------------------------------------------------------- Init
NoRequest ==
    [pc |-> "idle", chunk_number |-> 0, total_chunks |-> 0, file_id |-> "",
     filename |-> "", share |-> NoShare, resp |-> "none",
     redelivered |-> FALSE, before |-> FALSE, complete |-> FALSE,
     assembling |-> FALSE, raced |-> FALSE, moved |-> FALSE,
     recorded |-> FALSE, stored |-> FALSE]
\* a request handler with no download request (share is the object the
\* request holds while it runs)
NoDownload ==
    [pc |-> "idle", kind |-> "none", token |-> "", filename |-> "",
     share |-> NoShare, resp |-> "none", lookup |-> "none",
     expired |-> FALSE, listed |-> FALSE]
SweepIdle == [pc |-> "idle", todo |-> {}, cleaned_count |-> 0]
NoVisit == [entry |-> "", lookup |-> "none", expired |-> FALSE,
            rm |-> "none"]
\* a request handler that is in no start() or stop() call
NoCall == [pc |-> "idle", thread |-> 0]
\* cleanup_scheduler = CleanupScheduler(): running False, thread None; no
\* thread has been created
NewScheduler ==
    [running |-> FALSE, thread |-> 0, loops |-> <<>>,
     call |-> [h \in Handlers |-> NoCall]]
\* the settings rows initialize_database inserts: auto_cleanup is True
DefaultSettings == [auto_cleanup |-> TRUE]

Init ==
    /\ now = 0
    /\ db = EmptyMap
    /\ fs = EmptyMap
    /\ rootFiles = StrayFiles
    /\ used = {}
    /\ sweep = SweepIdle
    /\ lastVisit = NoVisit
    /\ staging = EmptyMap
    /\ req = [h \in Handlers |-> NoRequest]
    /\ written = EmptyMap
    /\ requests = 0
    /\ saved_files = <<>>
    /\ dl = [h \in Handlers |-> NoDownload]
    /\ sched = NewScheduler
    /\ settings = DefaultSettings

\* ------------------------------------------------------------- registry
\* time passes
Tick ==
    /\ now < MaxTime
    /\ now' = now + 1
    /\ UNCHANGED <<db, fs, rootFiles, used, sweepVars, chunkVars, dlVars>>

\* admin.request_share_token: FileShare.create(recipient, [], hours)
RequestShareToken(t, recipient, retention) ==
    /\ t = generate_token
    /\ used' = used \cup {t}
    /\ db' = Put(db, t, NewRow(recipient, <<>>, retention))
    /\ UNCHANGED <<now, fs, rootFiles, sweepVars, chunkVars, dlVars>>

RECURSIVE ApiSaveLoop(_, _, _, _, _)
\* the loop of api.upload_api over the uploaded files, from file i on: a
\* file with no name is skipped, the others are written to
\* <share_dir>/<secure_filename(name)>, over any file of that name, and the
\* name is appended to saved. f.save raising (an I/O error at file failAt,
\* or a path no file can be written to) ends the loop (ok is FALSE).
ApiSaveLoop(tok, files, failAt, i, st) ==
    IF i > Len(files) THEN st
    ELSE LET filename == secure_filename(files[i].filename) IN
         IF files[i].filename = ""
         THEN ApiSaveLoop(tok, files, failAt, i + 1, st)
         ELSE IF i = failAt \/ ~CanWrite(filename)
         THEN [st EXCEPT !.ok = FALSE]
         ELSE ApiSaveLoop(tok, files, failAt, i + 1,
                [fs |-> WriteFs(st.fs, tok, filename, <<files[i].data>>),
                 root |-> WriteRoot(st.root, filename),
                 saved |-> Append(st.saved, filename),
                 ok |-> TRUE])

\* api.upload_api: a share with no recipient is created, its directory
\* made, the files saved and share.files = saved written with share.save().
\* When f.save raises, the row (with no files), the directory and the
\* files saved so far stay behind.
UploadApi(t, files, retention, failAt) ==
    /\ t = generate_token
    /\ \E i \in 1..Len(files) : files[i].filename # ""
    /\ used' = used \cup {t}
    /\ LET created == Put(db, t, NewRow("", <<>>, retention))
           share == FileShareObj(t, created[t])
           st == ApiSaveLoop(t, files, failAt, 1,
                    [fs |-> Put(fs, t, EmptyMap), root |-> rootFiles,
                     saved |-> <<>>, ok |-> TRUE])
       IN
        /\ fs' = st.fs
        /\ rootFiles' = st.root
        /\ db' = IF st.ok
                 THEN Save(created, [share EXCEPT !.files = st.saved])
                 ELSE created
    /\ UNCHANGED <<now, sweepVars, chunkVars, dlVars>>

\* os.path.splitext of a file name
SplitExt(s) ==
    CASE s = "a.txt" -> [name |-> "a", ext |-> ".txt"]
      [] s = "b.txt" -> [name |-> "b", ext |-> ".txt"]
      [] s = "d_a.txt" -> [name |-> "d_a", ext |-> ".txt"]
      [] OTHER -> [name |-> s, ext |-> ""]

\* os.path.exists(os.path.join(<token directory>, name))
Exists(f, rf, tok, name) ==
    CASE Target(name).kind = "inside" -> Target(name).name \in DOMAIN f[tok]
      [] Target(name).kind = "root" -> Target(name).name \in rf
      [] OTHER -> TRUE

RECURSIVE FreeName(_, _, _, _, _, _)
\* the "while os.path.exists(file_path)" loop of save_uploaded_files:
\* <name>_<counter><ext> with the first counter from the given one on that
\* names no existing file
FreeName(f, rf, tok, original_filename, filename, counter) ==
    IF ~Exists(f, rf, tok, filename) THEN filename
    ELSE FreeName(f, rf, tok, original_filename,
            SplitExt(original_filename).name \o "_" \o ToString(counter)
                \o SplitExt(original_filename).ext,
            counter + 1)

RECURSIVE SaveLoop(_, _, _, _)
\* the loop of save_uploaded_files, from file i on: a file with no name,
\* or whose name secure_filename leaves nothing of, is skipped; the others
\* are written under the first free name, which is appended to saved_files
SaveLoop(tok, files, i, st) ==
    IF i > Len(files) THEN st
    ELSE LET filename == secure_filename(files[i].filename)
             stored == FreeName(st.fs, st.root, tok, filename, filename, 1)
         IN
         IF files[i].filename = "" \/ filename = ""
         THEN SaveLoop(tok, files, i + 1, st)
         ELSE SaveLoop(tok, files, i + 1,
                [fs |-> WriteFs(st.fs, tok, stored, <<files[i].data>>),
                 root |-> WriteRoot(st.root, stored),
                 saved |-> Append(st.saved, stored)])

\* utils.file_utils.save_uploaded_files(files, token): the token directory
\* is made if missing, the files are saved, the stored names returned
SaveUploadedFiles(t, files) ==
    /\ t \in DOMAIN db
    /\ LET made == IF t \in DOMAIN fs THEN fs ELSE Put(fs, t, EmptyMap)
           st == SaveLoop(t, files, 1,
                    [fs |-> made, root |-> rootFiles, saved |-> <<>>])
       IN
        /\ fs' = st.fs
        /\ rootFiles' = st.root
        /\ saved_files' = st.saved
    /\ UNCHANGED <<now, db, used, sweepVars, chunkVars, dl>>

\* a mutation of set_recipient that counts the retention from the creation
\* time
SetRecipientFromCreation(d, t, recipient, retention) ==
    IF t \in DOMAIN d
    THEN [d EXCEPT ![t] = [@ EXCEPT !.recipient_email = recipient,
                                    !.expires_at = d[t].created_at + retention]]
    ELSE d

\* FileShare.set_recipient: UPDATE recipient_email, expires_at
SetRecipient(d, t, recipient, retention) ==
    IF t \in DOMAIN d
    THEN [d EXCEPT ![t] = [@ EXCEPT !.recipient_email = recipient,
                                    !.expires_at = now + retention]]
    ELSE d

\* admin.notify_share: get, then set_recipient when a recipient was given
NotifyShare(t, recipient, retention, dbFail) ==
    /\ t \in used
    /\ Get(t, dbFail).found
    /\ recipient # ""
    /\ db' = SetRecipient(db, t, recipient, retention)
    /\ UNCHANGED <<now, fs, rootFiles, used, sweepVars, chunkVars, dlVars>>

\* admin.reactivate_share: an expired share gets a new expires_at and is
\* saved
ReactivateShare(t, retention, dbFail) ==
    /\ t \in used
    /\ LET share == Get(t, dbFail) IN
        /\ share.found
        /\ is_expired(share, now)
        /\ db' = Save(db, [share EXCEPT !.expires_at = now + retention])
    /\ UNCHANGED <<now, fs, rootFiles, used, sweepVars, chunkVars, dlVars>>

\* shutil.rmtree of directory e: gone, or (on an I/O error) still there with
\* the files in keep
Rmtree(f, e, ioFail, keep) ==
    IF e \notin DOMAIN f THEN f
    ELSE IF ioFail THEN [f EXCEPT ![e] = Restrict(@, keep)]
    ELSE Drop(f, e)

\* FileShare.delete_by_token (admin.delete_file): rmtree of the directory,
\* then DELETE of the row; an exception in either ends the call
DeleteByToken(t, ioFail, dbFail) ==
    /\ t \in used
    /\ \E keep \in SUBSET (IF t \in DOMAIN fs THEN DOMAIN fs[t] ELSE {}) :
        fs' = Rmtree(fs, t, ioFail, keep)
    /\ db' = IF (ioFail /\ t \in DOMAIN fs) \/ dbFail \/ t \notin DOMAIN db
             THEN db ELSE Drop(db, t)
    /\ UNCHANGED <<now, rootFiles, used, sweepVars, chunkVars, dlVars>>

\* FileShare.get_all_active at time t, as the set of the tokens of the
\* shares returned: WHERE datetime(expires_at) > datetime('now'); the
\* except branch leaves the list empty
get_all_active(d, t, dbFail) ==
    IF dbFail THEN {} ELSE {k \in DOMAIN d : d[k].expires_at > t}

\* FileShare.get_active_count: COUNT(*) with the same WHERE; 0 when the
\* query raises
get_active_count(d, t, dbFail) ==
    IF dbFail THEN 0 ELSE Cardinality({k \in DOMAIN d : d[k].expires_at > t})

\* FileShare.get_expired_shares: WHERE datetime(expires_at) <=
\* datetime('now') AND recipient_email IS NOT NULL AND recipient_email != '';
\* [] when the query raises
get_expired_shares(d, t, dbFail) ==
    IF dbFail THEN {}
    ELSE {k \in DOMAIN d : d[k].expires_at <= t /\ d[k].recipient_email # ""}

\* the rows FileShare.cleanup_expired_files selects:
\* WHERE datetime(expires_at) < datetime('now')
ExpiredTokens == {t \in DOMAIN db : db[t].expires_at < now}

\* FileShare.cleanup_expired_files: nothing when auto_cleanup is off; else
\* every selected row and its directory are deleted, except those whose
\* rmtree raises (ioFailed)
ModelCleanupExpired(auto_cleanup, ioFailed) ==
    /\ ioFailed \subseteq (ExpiredTokens \cap DOMAIN fs)
    /\ IF auto_cleanup
       THEN /\ fs' = Restrict(fs, DOMAIN fs \ (ExpiredTokens \ ioFailed))
            /\ db' = Restrict(db, DOMAIN db \ (ExpiredTokens \ ioFailed))
       ELSE UNCHANGED <<fs, db>>
    /\ UNCHANGED <<now, rootFiles, used, sweepVars, chunkVars, dlVars>>

\* ---------------------------------------------------------------- sweep
\* utils.cleanup.cleanup_expired_files, called by the scheduler loop and by
\* manual_cleanup: os.listdir(uploads_dir) is taken once
SweepStart ==
    /\ sweep.pc = "idle"
    /\ sweep' = [pc |-> "visiting", todo |-> DOMAIN fs \cup rootFiles,
                 cleaned_count |-> 0]
    /\ lastVisit' = NoVisit
    /\ UNCHANGED <<regVars, chunkVars, dlVars, schedVars>>

\* a mutation of the sweep's test that leaves out the orphan branch
ShouldRemoveExpiredOnly(file_share, t) ==
    file_share.found /\ is_expired(file_share, t)

\* the sweep's test on a directory: "if file_share and
\* file_share.is_expired()" removes it, "elif not file_share" removes it
ShouldRemove(file_share, t) ==
    \/ file_share.found /\ is_expired(file_share, t)
    \/ ~file_share.found

\* a mutation of the counting that counts every removal tried
CleanedCountTried(cleaned_count, remove, ioFail) ==
    IF remove THEN cleaned_count + 1 ELSE cleaned_count

\* "cleaned_count += 1" follows shutil.rmtree inside the try, in both
\* branches: it is skipped when rmtree raises
CleanedCount(cleaned_count, remove, ioFail) ==
    IF remove /\ ~ioFail THEN cleaned_count + 1 ELSE cleaned_count

\* a mutation of the loop that gives the sweep up when a removal fails
RestOfListingAbort(todo, e, failed) ==
    IF failed THEN {} ELSE todo \ {e}

\* the entries of the listing still to visit after entry e: the except
\* branches only log, so the "for token_dir in os.listdir(...)" loop goes on
\* with the next entry after a failed removal as after any other visit
RestOfListing(todo, e, failed) == todo \ {e}

\* one iteration of the loop over the listing, for entry e
SweepVisit(e, dbFail, ioFail) ==
    /\ sweep.pc = "visiting"
    /\ e \in sweep.todo
    /\ LET file_share == Get(e, dbFail)
           remove == ShouldRemove(file_share, now)
       IN
        IF e \notin DOMAIN fs
        THEN \* not os.path.isdir: continue
            /\ sweep' = [sweep EXCEPT !.todo = @ \ {e}]
            /\ lastVisit' = [NoVisit EXCEPT !.entry = e, !.lookup = "skipped"]
            /\ UNCHANGED fs
        ELSE
            /\ \E keep \in SUBSET DOMAIN fs[e] :
                fs' = IF remove THEN Rmtree(fs, e, ioFail, keep) ELSE fs
            /\ sweep' = [sweep EXCEPT
                    !.todo = RestOfListing(@, e, remove /\ ioFail),
                    !.cleaned_count = CleanedCount(@, remove, ioFail)]
            /\ lastVisit' =
                [entry |-> e,
                 lookup |-> IF file_share.found THEN "found"
                            ELSE IF e \in DOMAIN db THEN "failed"
                            ELSE "absent",
                 expired |-> e \in DOMAIN db
                             /\ is_expired(FileShareObj(e, db[e]), now),
                 rm |-> IF ~remove THEN "none"
                        ELSE IF ioFail THEN "failed" ELSE "ok"]
    /\ UNCHANGED <<now, db, rootFiles, used, chunkVars, dlVars, schedVars>>

\* return cleaned_count: a scheduler thread that called the sweep goes on
\* to its sleep
SweepDone ==
    /\ sweep.pc = "visiting"
    /\ sweep.todo = {}
    /\ sweep' = [sweep EXCEPT !.pc = "idle"]
    /\ lastVisit' = NoVisit
    /\ sched' = [sched EXCEPT !.loops =
                    [k \in DOMAIN @ |->
                        IF @[k].pc = "sweeping"
                        THEN [@[k] EXCEPT !.pc = "sleep"] ELSE @[k]]]
    /\ UNCHANGED <<regVars, chunkVars, dlVars, settings>>

\* ------------------------------------------------------ CleanupScheduler
\* Settings.get('auto_cleanup', True): the stored value, and the default
\* True when the query raises (the except branch returns default)
SettingsGetAutoCleanup(lookupFail) ==
    IF lookupFail THEN TRUE ELSE settings.auto_cleanup

\* admin settings form: Settings.set('auto_cleanup', ...)
SetAutoCleanup(b) ==
    /\ settings' = [settings EXCEPT !.auto_cleanup = b]
    /\ UNCHANGED <<regVars, sweep, lastVisit, sched, chunkVars, dlVars>>

\* start() up to its test: "if self.running: return"
StartCheck(h) ==
    /\ sched.call[h].pc = "idle"
    /\ sched' = IF sched.running THEN sched
                ELSE [sched EXCEPT !.call[h].pc = "starting"]
    /\ UNCHANGED <<regVars, sweep, lastVisit, settings, chunkVars, dlVars>>

\* the rest of start(): self.running = True, a new daemon thread running
\* _run_scheduler is stored in self.thread and started
StartThread(h) ==
    /\ sched.call[h].pc = "starting"
    /\ Len(sched.loops) < MaxThreads
    /\ sched' = [sched EXCEPT
                    !.running = TRUE,
                    !.thread = Len(sched.loops) + 1,
                    !.loops = Append(@, [pc |-> "test", after |-> "start"]),
                    !.call[h] = NoCall]
    /\ UNCHANGED <<regVars, sweep, lastVisit, settings, chunkVars, dlVars>>

\* stop() up to the join: self.running = False, and "if self.thread" the
\* thread stored in self.thread is joined
StopCall(h) ==
    /\ sched.call[h].pc = "idle"
    /\ sched' = [sched EXCEPT
                    !.running = FALSE,
                    !.call[h] = IF sched.thread = 0 THEN NoCall
                                ELSE [pc |-> "joining",
                                      thread |-> sched.thread]]
    /\ UNCHANGED <<regVars, sweep, lastVisit, settings, chunkVars, dlVars>>

\* self.thread.join() returns when the joined thread has ended, and stop()
\* with it
StopJoin(h) ==
    /\ sched.call[h].pc = "joining"
    /\ sched.loops[sched.call[h].thread].pc = "dead"
    /\ sched' = [sched EXCEPT !.call[h] = NoCall]
    /\ UNCHANGED <<regVars, sweep, lastVisit, settings, chunkVars, dlVars>>

\* "while self.running" in thread k: the loop goes on or the thread ends
LoopTest(k) ==
    /\ k \in DOMAIN sched.loops
    /\ sched.loops[k].pc = "test"
    /\ sched' = [sched EXCEPT !.loops[k].pc =
                    IF sched.running THEN "iterate" ELSE "dead"]
    /\ UNCHANGED <<regVars, sweep, lastVisit, settings, chunkVars, dlVars>>

\* a mutation of the loop body in which an exception ends the thread
LoopStepUncaught(auto_cleanup, err) ==
    IF err THEN "dead"
    ELSE IF auto_cleanup THEN "sweeping"
    ELSE "sleep"

\* the try block of the loop: an exception raised in it (os.listdir of the
\* uploads folder, time.sleep of a bad interval) is caught, logged and
\* followed by time.sleep(300); else the sweep is called when auto_cleanup
\* is on, and the thread sleeps for the interval
LoopStep(auto_cleanup, err) ==
    IF err THEN "retry"
    ELSE IF auto_cleanup THEN "sweeping"
    ELSE "sleep"

\* one iteration of the loop of thread k, up to the call of
\* cleanup_expired_files or to the sleep
SchedIterate(k, lookupFail, err) ==
    /\ k \in DOMAIN sched.loops
    /\ sched.loops[k].pc = "iterate"
    /\ LET step == LoopStep(SettingsGetAutoCleanup(lookupFail), err) IN
        /\ sched' = [sched EXCEPT !.loops[k].pc = step]
        /\ IF step = "sweeping"
           THEN /\ sweep.pc = "idle"
                /\ sweep' = [pc |-> "visiting",
                             todo |-> DOMAIN fs \cup rootFiles,
                             cleaned_count |-> 0]
                /\ lastVisit' = NoVisit
           ELSE UNCHANGED <<sweep, lastVisit>>
    /\ UNCHANGED <<regVars, settings, chunkVars, dlVars>>

\* time.sleep returns in thread k, after the interval or after the retry
\* delay, and the loop tests self.running again
LoopWake(k) ==
    /\ k \in DOMAIN sched.loops
    /\ sched.loops[k].pc \in {"sleep", "retry"}
    /\ sched' = [sched EXCEPT !.loops[k] =
                    [pc |-> "test", after |-> sched.loops[k].pc]]
    /\ UNCHANGED <<regVars, sweep, lastVisit, settings, chunkVars, dlVars>>

\* ------------------------------------------------------- upload_chunk
\* an empty session directory under <tmp>/chunked_uploads
EmptyDir == EmptyMap
\* the components of a fileId as sent, split at "/" (a leading "/" makes
\* the first component empty)
IdParts(fid) ==
    CASE fid = "../x" -> <<"..", "x">>
      [] fid = "s2/../s1" -> <<"s2", "..", "s1">>
      [] fid = "/x" -> <<"", "x">>
      [] OTHER -> <<fid>>

RECURSIVE Resolve(_, _)
\* the directory the components p lead to from the directory at, a path
\* relative to <tmp>/chunked_uploads: ".." goes to the parent, which from
\* the staging root itself is outside of it
Resolve(p, at) ==
    IF p = <<>> THEN at
    ELSE IF Head(p) = ".."
    THEN Resolve(Tail(p),
            IF at # <<>> /\ at[Len(at)] # ".."
            THEN SubSeq(at, 1, Len(at) - 1)
            ELSE Append(at, ".."))
    ELSE Resolve(Tail(p), Append(at, Head(p)))

RECURSIVE JoinDir(_)
JoinDir(p) ==
    IF p = <<>> THEN "."
    ELSE IF Len(p) = 1 THEN p[1]
    ELSE p[1] \o "/" \o JoinDir(Tail(p))

\* temp_dir = os.path.join(tempfile.gettempdir(), 'chunked_uploads',
\* file_id), as the directory the file system resolves it to: relative to
\* the staging root, or (for a fileId that starts with "/", which
\* os.path.join takes alone) the absolute path
TempDir(fid) ==
    IF fid = "" THEN "."
    ELSE IF Head(IdParts(fid)) = "" THEN fid
    ELSE JoinDir(Resolve(IdParts(fid), <<>>))

\* whether the session directory of fileId fid is beneath the staging root:
\* not an absolute path, not the root itself and not reached through its
\* parent
BeneathStaging(fid) ==
    /\ fid # ""
    /\ Head(IdParts(fid)) # ""
    /\ Resolve(IdParts(fid), <<>>) # <<>>
    /\ Head(Resolve(IdParts(fid), <<>>)) # ".."

StagingDir(fid) ==
    IF TempDir(fid) \in DOMAIN staging THEN staging[TempDir(fid)]
    ELSE EmptyDir
\* whether chunk files 1..n are all in directory d
AllPresent(d, n) == \A i \in 1..n : ChunkName(i) \in DOMAIN d
InCompletion(r) == r.pc \in {"assemble", "move", "record"}

\* "if chunk_number == total_chunks": the request is taken for the last one
IsLastChunk(chunk_number, total_chunks) == chunk_number = total_chunks

\* upload_chunk up to the completion test: the form fields are read and the
\* file name sanitized, the share looked up (400 when FileShare.get gives
\* None), the chunk saved as chunk_<n> in the session directory, over any
\* file of that name
ChunkReceive(h, cn, tc, fid, fname, tok, data, dbFail) ==
    /\ req[h].pc = "idle"
    /\ requests < MaxRequests
    /\ requests' = requests + 1
    /\ LET share == Get(tok, dbFail)
           dir == StagingDir(fid)
           newdir == Put(dir, ChunkName(cn), <<data>>)
           last == IsLastChunk(cn, tc)
           racers == {g \in Handlers \ {h} :
                        /\ req[g].file_id # ""
                        /\ TempDir(req[g].file_id) = TempDir(fid)
                        /\ InCompletion(req[g])}
           r == [NoRequest EXCEPT !.chunk_number = cn, !.total_chunks = tc,
                                  !.file_id = fid,
                                  !.filename = secure_filename(fname),
                                  !.share = share]
       IN
        IF ~share.found
        THEN /\ req' = [req EXCEPT ![h] = [r EXCEPT !.resp = "error400"]]
             /\ UNCHANGED <<staging, written>>
        ELSE /\ staging' = Put(staging, TempDir(fid), newdir)
             /\ written' = Put(written, TempDir(fid),
                    Put(IF TempDir(fid) \in DOMAIN written
                        THEN written[TempDir(fid)]
                        ELSE EmptyMap, cn, data))
             /\ req' = [g \in Handlers |->
                    IF g = h
                    THEN [r EXCEPT
                            !.pc = IF last THEN "assemble" ELSE "idle",
                            !.resp = IF last THEN "none" ELSE "pending",
                            !.redelivered = ChunkName(cn) \in DOMAIN dir,
                            !.before = AllPresent(dir, tc),
                            !.complete = AllPresent(newdir, tc),
                            !.assembling = last,
                            !.raced = last /\ racers # {}]
                    ELSE IF last /\ g \in racers
                    THEN [req[g] EXCEPT !.raced = TRUE]
                    ELSE req[g]]
    /\ UNCHANGED <<regVars, sweepVars, saved_files, dl>>

RECURSIVE AssembleFrom(_, _, _, _, _, _)
\* the assembly loop from chunk i on, in directory d where the output file
\* name is open for writing with acc written to it so far: chunk_i is read
\* and appended, and a missing chunk file raises (ok is FALSE) and leaves
\* the output file with what was written. When the output file is itself
\* chunk_i, the read sees what the writer has flushed: all of acc or
\* nothing.
AssembleFrom(d, name, n, i, acc, flushed) ==
    IF i > n THEN [dir |-> Put(d, name, acc), ok |-> TRUE]
    ELSE IF ChunkName(i) \notin DOMAIN d
    THEN [dir |-> Put(d, name, acc), ok |-> FALSE]
    ELSE LET part == IF ChunkName(i) # name THEN d[ChunkName(i)]
                     ELSE IF flushed THEN acc ELSE <<>>
         IN AssembleFrom(d, name, n, i + 1, acc \o part, flushed)

\* open(assembled_path, 'wb') creates or truncates the output file in the
\* session directory, then the loop appends chunk_1..chunk_n to it
Assemble(d, name, n, flushed) ==
    AssembleFrom(Put(d, name, <<>>), name, n, 1, <<>>, flushed)

\* the assembly: a missing session directory, an empty file name (the
\* output path is then the session directory itself) or a missing chunk
\* file raises, which ends the request with a 500
ChunkAssemble(h) ==
    /\ req[h].pc = "assemble"
    /\ LET r == req[h]
           fid == TempDir(r.file_id)
       IN
        IF fid \notin DOMAIN staging \/ r.filename = ""
        THEN /\ req' = [req EXCEPT ![h] =
                    [r EXCEPT !.pc = "idle", !.resp = "error500"]]
             /\ UNCHANGED staging
        ELSE \E flushed \in BOOLEAN :
             LET a == Assemble(staging[fid], r.filename, r.total_chunks,
                               flushed)
             IN
             /\ staging' = [staging EXCEPT ![fid] = a.dir]
             /\ req' = [req EXCEPT ![h] =
                    IF a.ok THEN [r EXCEPT !.pc = "move"]
                    ELSE [r EXCEPT !.pc = "idle", !.resp = "error500"]]
    /\ UNCHANGED <<regVars, sweepVars, written, requests, saved_files, dl>>

\* os.makedirs(upload_dir, exist_ok=True), then shutil.move of the output
\* file to <uploads>/<token>/<filename>, over any file of that name; the
\* move raises when the output file is gone
ChunkMove(h) ==
    /\ req[h].pc = "move"
    /\ LET r == req[h]
           fid == TempDir(r.file_id)
           tok == r.share.token
           made == IF tok \in DOMAIN fs THEN fs ELSE Put(fs, tok, EmptyMap)
       IN
        IF /\ fid \in DOMAIN staging
           /\ r.filename \in DOMAIN staging[fid]
           /\ CanWrite(r.filename)
        THEN /\ fs' = WriteFs(made, tok, r.filename, staging[fid][r.filename])
             /\ rootFiles' = WriteRoot(rootFiles, r.filename)
             /\ staging' = [staging EXCEPT ![fid] = Drop(@, r.filename)]
             /\ req' = [req EXCEPT ![h] =
                    [r EXCEPT !.pc = "record", !.moved = TRUE,
                        !.stored = fid \in DOMAIN written
                            /\ (\A i \in 1..r.total_chunks :
                                    i \in DOMAIN written[fid])
                            /\ staging[fid][r.filename] =
                                [i \in 1..r.total_chunks |-> written[fid][i]]]]
        ELSE /\ fs' = made
             /\ req' = [req EXCEPT ![h] =
                    [r EXCEPT !.pc = "idle", !.resp = "error500"]]
             /\ UNCHANGED <<staging, rootFiles>>
    /\ UNCHANGED <<now, db, used, sweepVars, written, requests,
                   saved_files, dl>>

\* the list xs with x appended if not in it
AppendIfAbsent(xs, x) ==
    IF \E i \in 1..Len(xs) : xs[i] = x THEN xs ELSE Append(xs, x)

\* the rest of the completion: the name is appended to share.files if not
\* in it, share.save() writes the object, chunk_1..chunk_n are removed and
\* the session directory too if it is empty; the response is done:true
ChunkRecord(h) ==
    /\ req[h].pc = "record"
    /\ LET r == req[h]
           fid == TempDir(r.file_id)
           share == [r.share EXCEPT !.files = AppendIfAbsent(@, r.filename)]
           left == IF fid \in DOMAIN staging
                   THEN Restrict(staging[fid], DOMAIN staging[fid] \
                            {ChunkName(i) : i \in 1..r.total_chunks})
                   ELSE EmptyDir
       IN
        /\ db' = Save(db, share)
        /\ staging' = IF fid \notin DOMAIN staging THEN staging
                      ELSE IF left = EmptyDir THEN Drop(staging, fid)
                      ELSE [staging EXCEPT ![fid] = left]
        /\ req' = [req EXCEPT ![h] =
                [r EXCEPT !.pc = "idle", !.resp = "done", !.share = share,
                          !.recorded = TRUE]]
    /\ UNCHANGED <<now, fs, rootFiles, used, sweepVars, written, requests,
                   saved_files, dl>>

\* ------------------------------------------------------------ downloads
\* whether x is an element of the list xs
InList(x, xs) == \E i \in 1..Len(xs) : xs[i] = x
\* os.path.exists(share.get_file_path(filename))
OnDisk(t, filename) == t \in DOMAIN fs /\ filename \in DOMAIN fs[t]

\* a mutation of the checks of download_file that leaves out the test of
\* the name against share.files
DownloadCheckNoList(share, filename, t, onDisk) ==
    IF ~share.found THEN "404"
    ELSE IF is_expired(share, t) THEN "410"
    ELSE IF ~onDisk THEN "404"
    ELSE "ok"

\* the checks of download_file, in their order: abort(404) with no share,
\* abort(410) for an expired one, abort(404) for a name not in share.files
\* and for a file not on disk
DownloadCheck(share, filename, t, onDisk) ==
    IF ~share.found THEN "404"
    ELSE IF is_expired(share, t) THEN "410"
    ELSE IF ~InList(filename, share.files) THEN "404"
    ELSE IF ~onDisk THEN "404"
    ELSE "ok"

\* the checks of download_zip: abort(404) with no share, abort(410) for an
\* expired one
ZipCheck(share, t) ==
    IF ~share.found THEN "404"
    ELSE IF is_expired(share, t) THEN "410"
    ELSE "ok"

\* what a download request found when it looked the token up, for the
\* claims: the row as it was, apart from what FileShare.get returned
Found(d, t, filename, share) ==
    [d EXCEPT !.token = t, !.filename = filename, !.share = share,
              !.lookup = IF share.found THEN "found"
                         ELSE IF t \in DOMAIN db THEN "failed"
                         ELSE "absent",
              !.expired = t \in DOMAIN db
                          /\ is_expired(FileShareObj(t, db[t]), now),
              !.listed = t \in DOMAIN db /\ InList(filename, db[t].files)]

\* main.download_file up to the marking: the share is looked up and the
\* checks made
DownloadFile(h, t, filename, dbFail) ==
    /\ dl[h].pc = "idle"
    /\ t \in DOMAIN db => db[t].download_count < MaxDownloads
    /\ LET share == Get(t, dbFail)
           check == DownloadCheck(share, filename, now, OnDisk(t, filename))
           d == Found([NoDownload EXCEPT !.kind = "file"], t, filename, share)
       IN dl' = [dl EXCEPT ![h] =
                    IF check = "ok" THEN [d EXCEPT !.pc = "markfile"]
                    ELSE [d EXCEPT !.resp = check, !.share = NoShare]]
    /\ UNCHANGED <<regVars, sweepVars, chunkVars, saved_files>>

\* main.download_zip up to the marking: the share is looked up, the checks
\* made and the files that are on disk zipped
DownloadZip(h, t, dbFail) ==
    /\ dl[h].pc = "idle"
    /\ t \in DOMAIN db => db[t].download_count < MaxDownloads
    /\ LET share == Get(t, dbFail)
           check == ZipCheck(share, now)
           d == Found([NoDownload EXCEPT !.kind = "zip"], t, "", share)
       IN dl' = [dl EXCEPT ![h] =
                    IF check = "ok" THEN [d EXCEPT !.pc = "markdl"]
                    ELSE [d EXCEPT !.resp = check, !.share = NoShare]]
    /\ UNCHANGED <<regVars, sweepVars, chunkVars, saved_files>>

\* FileShare.mark_file_downloaded: a name not in the object's
\* downloaded_files is appended and the object saved; else nothing
DownloadMarkFile(h) ==
    /\ dl[h].pc = "markfile"
    /\ LET d == dl[h]
           share == [d.share EXCEPT !.downloaded_files =
                        Append(@, d.filename)]
       IN
        IF InList(d.filename, d.share.downloaded_files)
        THEN /\ dl' = [dl EXCEPT ![h] = [d EXCEPT !.pc = "markdl"]]
             /\ UNCHANGED db
        ELSE /\ db' = Save(db, share)
             /\ dl' = [dl EXCEPT ![h] =
                        [d EXCEPT !.pc = "markdl", !.share = share]]
    /\ UNCHANGED <<now, fs, rootFiles, used, sweepVars, chunkVars,
                   saved_files>>

\* the UPDATE of FileShare.mark_downloaded: downloaded, download_count and
\* downloaded_files of the object; no row, no change
MarkDownloaded(d, share) ==
    IF share.token \in DOMAIN d
    THEN [d EXCEPT ![share.token] =
            [@ EXCEPT !.downloaded = share.downloaded,
                      !.download_count = share.download_count,
                      !.downloaded_files = share.downloaded_files]]
    ELSE d

\* FileShare.mark_downloaded (the object's count is incremented and the
\* row updated; an exception of the update is printed and dropped), then
\* the file is sent: os.path.getsize raises for a file that is gone (500)
DownloadMarkDownloaded(h, dbFail) ==
    /\ dl[h].pc = "markdl"
    /\ LET d == dl[h]
           share == [d.share EXCEPT !.downloaded = TRUE,
                                    !.download_count = @ + 1]
           gone == d.kind = "file" /\ ~OnDisk(d.token, d.filename)
       IN
        /\ db' = IF dbFail THEN db ELSE MarkDownloaded(db, share)
        /\ dl' = [dl EXCEPT ![h] =
                    [d EXCEPT !.pc = "idle", !.share = NoShare,
                              !.resp = IF gone THEN "500" ELSE "served"]]
    /\ UNCHANGED <<now, fs, rootFiles, used, sweepVars, chunkVars,
                   saved_files>>

\* ----------------------------------------------------------------- Next
\* an upload of the one file a.txt
OneFile == <<[filename |-> "a.txt", data |-> 1]>>
\* an upload of the two files a.txt and b.txt
TwoFiles == <<[filename |-> "a.txt", data |-> 1],
              [filename |-> "b.txt", data |-> 1]>>

Next ==
    \/ Tick
    \/ \E t \in Tokens, r \in Recipients, h \in Retentions :
        RequestShareToken(t, r, h)
    \/ \E t \in Tokens, h \in Retentions, fa \in {0, 1} :
        UploadApi(t, OneFile, h, fa)
    \/ \E t \in Tokens, r \in Recipients, h \in Retentions, f \in BOOLEAN :
        NotifyShare(t, r, h, f)
    \/ \E t \in Tokens, h \in Retentions, f \in BOOLEAN :
        ReactivateShare(t, h, f)
    \/ \E t \in Tokens, io \in BOOLEAN, f \in BOOLEAN :
        DeleteByToken(t, io, f)
    \/ \E ac \in BOOLEAN, S \in SUBSET Tokens : ModelCleanupExpired(ac, S)
    \/ SweepStart
    \/ \E e \in Tokens \cup StrayFiles, f \in BOOLEAN, io \in BOOLEAN :
        SweepVisit(e, f, io)
    \/ SweepDone

\* the registry, the model-level cleanup and the sweep
Spec == Init /\ [][Next]_vars

\* chunk requests of one session, with 1 <= chunkNumber <= totalChunks,
\* against the shares created so far
NextChunk ==
    \/ \E t \in Tokens, r \in Recipients : RequestShareToken(t, r, 1)
    \/ \E h \in Handlers, tc \in 1..MaxChunks, t \in Tokens, d \in Datas,
          f \in BOOLEAN :
        \E cn \in 1..tc : ChunkReceive(h, cn, tc, "s1", "a.txt", t, d, f)
    \/ \E h \in Handlers : ChunkAssemble(h)
    \/ \E h \in Handlers : ChunkMove(h)
    \/ \E h \in Handlers : ChunkRecord(h)

SpecChunk == Init /\ [][NextChunk]_vars

\* chunk requests with any chunkNumber and totalChunks
NextChunkAny ==
    \/ \E t \in Tokens, r \in Recipients : RequestShareToken(t, r, 1)
    \/ \E h \in Handlers, cn \in ChunkNumbers, tc \in TotalCounts,
          t \in Tokens, f \in BOOLEAN :
        ChunkReceive(h, cn, tc, "s1", "a.txt", t, 1, f)
    \/ \E h \in Handlers : ChunkAssemble(h)
    \/ \E h \in Handlers : ChunkMove(h)
    \/ \E h \in Handlers : ChunkRecord(h)

SpecChunkAny == Init /\ [][NextChunkAny]_vars

\* chunk requests of one session whose file name may be the name of one
\* of its chunk files
NextChunkName ==
    \/ \E t \in Tokens, r \in Recipients : RequestShareToken(t, r, 1)
    \/ \E h \in Handlers, tc \in 1..MaxChunks, t \in Tokens, f \in BOOLEAN,
          n \in {"a.txt", ChunkName(MaxChunks)} :
        \E cn \in 1..tc : ChunkReceive(h, cn, tc, "s1", n, t, 1, f)
    \/ \E h \in Handlers : ChunkAssemble(h)
    \/ \E h \in Handlers : ChunkMove(h)
    \/ \E h \in Handlers : ChunkRecord(h)

SpecChunkName == Init /\ [][NextChunkName]_vars

\* chunk requests of two sessions, one request at a time
NextChunkSeq ==
    \/ \E t \in Tokens, r \in Recipients : RequestShareToken(t, r, 1)
    \/ \E h \in {1}, tc \in 1..MaxChunks, fid \in {"s1", "s2"},
          t \in Tokens, d \in Datas, f \in BOOLEAN :
        \E cn \in 1..tc : ChunkReceive(h, cn, tc, fid, "a.txt", t, d, f)
    \/ \E h \in {1} : ChunkAssemble(h)
    \/ \E h \in {1} : ChunkMove(h)
    \/ \E h \in {1} : ChunkRecord(h)

SpecChunkSeq == Init /\ [][NextChunkSeq]_vars

\* the file lists of a multipart request: one or two files, each a name as
\* sent (possibly none) and its content
UploadedFile == [filename : RawNames \cup {""}, data : Datas]
UploadLists ==
    {<<f>> : f \in UploadedFile} \cup {<<f, g>> : f, g \in UploadedFile}
\* the number of files in the directory of token t
DirSize(t) == IF t \in DOMAIN fs THEN Cardinality(DOMAIN fs[t]) ELSE 0

\* the two save paths that take whole files: API uploads, and
\* save_uploaded_files on the shares there are
NextSave ==
    \/ \E t \in Tokens, r \in Recipients : RequestShareToken(t, r, 1)
    \/ \E t \in Tokens, files \in UploadLists, fa \in {0, 1, 2} :
        UploadApi(t, files, 1, fa)
    \/ \E t \in Tokens, files \in UploadLists :
        DirSize(t) + Len(files) <= MaxFiles /\ SaveUploadedFiles(t, files)

SpecSave == Init /\ [][NextSave]_vars

\* the requests with one file, of any name and the one content
NameLists == {<<[filename |-> n, data |-> 1]>> : n \in RawNames \cup {""}}

\* the three save paths on the first share, with file names as clients
\* send them
NextNames ==
    \/ \E t \in {TokenTable[1]}, files \in NameLists, fa \in {0, 1} :
        UploadApi(t, files, 1, fa)
    \/ \E t \in {TokenTable[1]}, files \in NameLists :
        DirSize(t) + Len(files) <= MaxFiles /\ SaveUploadedFiles(t, files)
    \/ \E h \in {1}, n \in RawNames \cup {""}, t \in {TokenTable[1]}, f \in BOOLEAN :
        ChunkReceive(h, 1, 1, "s1", n, t, 1, f)
    \/ \E h \in {1} : ChunkAssemble(h)
    \/ \E h \in {1} : ChunkMove(h)
    \/ \E h \in {1} : ChunkRecord(h)

SpecNames == Init /\ [][NextNames]_vars

\* downloads of the first share, one request at a time, while it is
\* created by an API upload, given a recipient, expires and is deleted
NextServe ==
    \/ Tick
    \/ \E t \in {TokenTable[1]}, h \in Retentions, fa \in {0, 1, 2} :
        UploadApi(t, TwoFiles, h, fa)
    \/ \E t \in {TokenTable[1]}, h \in Retentions, f \in BOOLEAN :
        NotifyShare(t, "r@x", h, f)
    \/ \E t \in {TokenTable[1]}, io \in BOOLEAN, f \in BOOLEAN :
        DeleteByToken(t, io, f)
    \/ \E h \in {1}, t \in {TokenTable[1]}, n \in FileNames, f \in BOOLEAN :
        DownloadFile(h, t, n, f)
    \/ \E h \in {1}, t \in {TokenTable[1]}, f \in BOOLEAN :
        DownloadZip(h, t, f)
    \/ \E h \in {1} : DownloadMarkFile(h)
    \/ \E h \in {1}, f \in BOOLEAN : DownloadMarkDownloaded(h, f)

SpecServe == Init /\ [][NextServe]_vars

\* concurrent downloads of a share with two files, next to the
\* reactivation of the share
NextDownload ==
    \/ Tick
    \/ \E t \in Tokens : UploadApi(t, TwoFiles, 1, 0)
    \/ \E t \in Tokens, f \in BOOLEAN : NotifyShare(t, "r@x", 0, f)
    \/ \E t \in Tokens, f \in BOOLEAN : ReactivateShare(t, 1, f)
    \/ \E h \in Handlers, t \in Tokens, n \in FileNames, f \in BOOLEAN :
        DownloadFile(h, t, n, f)
    \/ \E h \in Handlers, t \in Tokens, f \in BOOLEAN : DownloadZip(h, t, f)
    \/ \E h \in Handlers : DownloadMarkFile(h)
    \/ \E h \in Handlers, f \in BOOLEAN : DownloadMarkDownloaded(h, f)

SpecDownload == Init /\ [][NextDownload]_vars

\* the registry alone: shares are created, given a recipient, reactivated
\* and deleted as time passes
NextRegistry ==
    \/ Tick
    \/ \E t \in Tokens, r \in Recipients, h \in Retentions :
        RequestShareToken(t, r, h)
    \/ \E t \in Tokens, h \in Retentions, fa \in {0, 1, 2} :
        UploadApi(t, TwoFiles, h, fa)
    \/ \E t \in Tokens, r \in Recipients, h \in Retentions, f \in BOOLEAN :
        NotifyShare(t, r, h, f)
    \/ \E t \in Tokens, h \in Retentions, f \in BOOLEAN :
        ReactivateShare(t, h, f)
    \/ \E t \in Tokens, io \in BOOLEAN, f \in BOOLEAN :
        DeleteByToken(t, io, f)

SpecRegistry == Init /\ [][NextRegistry]_vars

\* the registry and the cleanups with no explicit delete request
NextNoDelete ==
    \/ Tick
    \/ \E t \in Tokens, r \in Recipients, h \in Retentions :
        RequestShareToken(t, r, h)
    \/ \E t \in Tokens, h \in Retentions, fa \in {0, 1} :
        UploadApi(t, OneFile, h, fa)
    \/ \E t \in Tokens, r \in Recipients, h \in Retentions, f \in BOOLEAN :
        NotifyShare(t, r, h, f)
    \/ \E t \in Tokens, h \in Retentions, f \in BOOLEAN :
        ReactivateShare(t, h, f)
    \/ \E ac \in BOOLEAN, S \in SUBSET Tokens : ModelCleanupExpired(ac, S)
    \/ SweepStart
    \/ \E e \in Tokens \cup StrayFiles, f \in BOOLEAN, io \in BOOLEAN :
        SweepVisit(e, f, io)
    \/ SweepDone

SpecNoDelete == Init /\ [][NextNoDelete]_vars

\* single-chunk uploads racing with explicit deletes and the sweep
NextRace ==
    \/ \E t \in Tokens, r \in Recipients : RequestShareToken(t, r, 1)
    \/ \E t \in Tokens, io \in BOOLEAN, f \in BOOLEAN :
        DeleteByToken(t, io, f)
    \/ \E h \in {1}, t \in Tokens, f \in BOOLEAN :
        ChunkReceive(h, 1, 1, "s1", "a.txt", t, 1, f)
    \/ \E h \in {1} : ChunkAssemble(h)
    \/ \E h \in {1} : ChunkMove(h)
    \/ \E h \in {1} : ChunkRecord(h)
    \/ SweepStart
    \/ \E e \in Tokens \cup StrayFiles, f \in BOOLEAN, io \in BOOLEAN :
        SweepVisit(e, f, io)
    \/ SweepDone

SpecRace == Init /\ [][NextRace]_vars

\* single-chunk uploads of two sessions, one of a.txt and one of b.txt,
\* by concurrent requests
NextChunkTwo ==
    \/ \E t \in Tokens, r \in Recipients : RequestShareToken(t, r, 1)
    \/ \E h \in Handlers, t \in Tokens, f \in BOOLEAN,
          p \in {<<"s1", "a.txt">>, <<"s2", "b.txt">>} :
        ChunkReceive(h, 1, 1, p[1], p[2], t, 1, f)
    \/ \E h \in Handlers : ChunkAssemble(h)
    \/ \E h \in Handlers : ChunkMove(h)
    \/ \E h \in Handlers : ChunkRecord(h)

SpecChunkTwo == Init /\ [][NextChunkTwo]_vars

\* the sweep, by the scheduler or the manual trigger, of the uploads of
\* shares that are given a recipient, expire and are deleted
NextSweep ==
    \/ Tick
    \/ \E t \in Tokens, h \in Retentions, fa \in {0, 1} :
        UploadApi(t, OneFile, h, fa)
    \/ \E t \in Tokens, h \in Retentions, f \in BOOLEAN :
        NotifyShare(t, "r@x", h, f)
    \/ \E t \in Tokens, io \in BOOLEAN, f \in BOOLEAN :
        DeleteByToken(t, io, f)
    \/ SweepStart
    \/ \E e \in Tokens \cup StrayFiles, f \in BOOLEAN, io \in BOOLEAN :
        SweepVisit(e, f, io)
    \/ SweepDone

SpecSweep == Init /\ [][NextSweep]_vars

\* directories of the uploads folder that no record names, left by an
\* earlier run
OrphanDirs == {"old"}
\* the state after construction when the uploads folder holds such a
\* directory
InitOrphan ==
    /\ now = 0
    /\ db = EmptyMap
    /\ fs = [d \in OrphanDirs |-> [n \in {"a.txt"} |-> <<1>>]]
    /\ rootFiles = StrayFiles
    /\ used = {}
    /\ sweep = SweepIdle
    /\ lastVisit = NoVisit
    /\ staging = EmptyMap
    /\ req = [h \in Handlers |-> NoRequest]
    /\ written = EmptyMap
    /\ requests = 0
    /\ saved_files = <<>>
    /\ dl = [h \in Handlers |-> NoDownload]
    /\ sched = NewScheduler
    /\ settings = DefaultSettings

\* the sweep of an uploads folder with an orphan directory and the
\* upload of the first share, which is given a recipient and expires
NextSweepTwo ==
    \/ Tick
    \/ \E t \in {TokenTable[1]}, h \in Retentions, fa \in {0, 1} :
        UploadApi(t, OneFile, h, fa)
    \/ \E t \in {TokenTable[1]}, h \in Retentions, f \in BOOLEAN :
        NotifyShare(t, "r@x", h, f)
    \/ SweepStart
    \/ \E e \in {TokenTable[1]} \cup StrayFiles \cup OrphanDirs, f \in BOOLEAN,
          io \in BOOLEAN :
        SweepVisit(e, f, io)
    \/ SweepDone

SpecSweepTwo == InitOrphan /\ [][NextSweepTwo]_vars

\* the scheduler, started and stopped by one caller at a time, next to the
\* manual trigger, over the upload of the first share, which expires
NextSched ==
    \/ Tick
    \/ \E t \in {TokenTable[1]} : UploadApi(t, OneFile, 0, 0)
    \/ \E t \in {TokenTable[1]} : NotifyShare(t, "r@x", 0, FALSE)
    \/ \E b \in BOOLEAN : SetAutoCleanup(b)
    \/ \E h \in {1} : StartCheck(h)
    \/ \E h \in {1} : StartThread(h)
    \/ \E h \in {1} : StopCall(h)
    \/ \E h \in {1} : StopJoin(h)
    \/ \E k \in 1..MaxThreads : LoopTest(k)
    \/ \E k \in 1..MaxThreads, lf \in BOOLEAN, err \in BOOLEAN :
        SchedIterate(k, lf, err)
    \/ \E k \in 1..MaxThreads : LoopWake(k)
    \/ SweepStart
    \/ \E e \in {TokenTable[1]} \cup StrayFiles, io \in BOOLEAN :
        SweepVisit(e, FALSE, io)
    \/ SweepDone

SpecSched == Init /\ [][NextSched]_vars

\* the same, where a scheduler thread that can take a step of its own
\* (test self.running, return from a sleep) takes it in the end
SpecSchedLive ==
    /\ SpecSched
    /\ \A k \in 1..MaxThreads :
        WF_vars(LoopTest(k)) /\ WF_vars(LoopWake(k))

\* the scheduler started and stopped by concurrent callers
NextSchedRace ==
    \/ \E h \in Handlers : StartCheck(h)
    \/ \E h \in Handlers : StartThread(h)
    \/ \E h \in Handlers : StopCall(h)
    \/ \E h \in Handlers : StopJoin(h)
    \/ \E k \in 1..MaxThreads : LoopTest(k)
    \/ \E k \in 1..MaxThreads, lf \in BOOLEAN, err \in BOOLEAN :
        SchedIterate(k, lf, err)
    \/ \E k \in 1..MaxThreads : LoopWake(k)
    \/ \E e \in StrayFiles : SweepVisit(e, FALSE, FALSE)
    \/ SweepDone

SpecSchedRace == Init /\ [][NextSchedRace]_vars

\* the session ids clients send: plain names, and ids with a parent
\* component or a leading separator
FileIds == {"s1", "s2", "../x", "s2/../s1", "/x"}

\* single-chunk uploads of sessions with any of these ids, one request at
\* a time
NextChunkIds ==
    \/ \E t \in {TokenTable[1]} : RequestShareToken(t, "", 1)
    \/ \E h \in {1}, fid \in FileIds, n \in FileNames, tc \in {1, 2},
          t \in {TokenTable[1]} :
        ChunkReceive(h, 1, tc, fid, n, t, 1, FALSE)
    \/ \E h \in {1} : ChunkAssemble(h)
    \/ \E h \in {1} : ChunkMove(h)
    \/ \E h \in {1} : ChunkRecord(h)

SpecChunkIds == Init /\ [][NextChunkIds]_vars

\* ---------------------------------------------------------------- claims
Row(t) == FileShareObj(t, db[t])
Pinned(t) == t \in DOMAIN db /\ db[t].recipient_email = ""
\* the entries the sweep visits in a step
Visited == sweep.todo \ sweep'.todo

\* C1: a share whose recipient is empty is not reported expired, now or at
\* any later time, whatever its expires_at
C1_PinnedNeverExpired ==
    \A t \in DOMAIN db :
        Pinned(t) => \A tm \in now..(MaxTime + 2) : ~is_expired(Row(t), tm)

\* a share with no recipient whose stored expires_at is in the past
C1_Witness ==
    \E t \in DOMAIN db : Pinned(t) /\ db[t].expires_at < now

\* C2: with no explicit delete, no step (sweep or cleanup call) removes the
\* row or the directory of a share with an empty recipient
C2_PinnedKept ==
    [][\A t \in Tokens :
        Pinned(t) => /\ t \in DOMAIN db'
                     /\ (t \in DOMAIN fs => t \in DOMAIN fs')]_vars

\* C3: when the sweep visits the directory of a share that has a recipient
\* and is expired, and nothing fails, the directory and the row are gone
C3_ExpiredRemoved ==
    [][\A e \in Visited :
        (/\ lastVisit'.lookup = "found"
         /\ lastVisit'.expired
         /\ lastVisit'.rm = "ok")
        => (e \notin DOMAIN fs' /\ e \notin DOMAIN db')]_vars

\* C4: a sweep step removes neither the directory nor the row of a share
\* whose row is present and not expired, a failing lookup included
C4_LiveKept ==
    [][\A e \in Visited :
        (e \in DOMAIN db /\ ~is_expired(Row(e), now))
        => /\ e \in DOMAIN db'
           /\ (e \in DOMAIN fs => e \in DOMAIN fs')]_vars

\* C5: when the sweep visits a directory that has no row and the removal
\* does not fail, the directory is gone; no sweep step touches the
\* non-directory entries of the upload root
C5_OrphanRemoved ==
    [][/\ \A e \in Visited :
            (e \in DOMAIN fs /\ e \notin DOMAIN db /\ lastVisit'.rm # "failed")
            => e \notin DOMAIN fs'
       /\ (sweep' # sweep => rootFiles' = rootFiles)]_vars

\* the sweep has just removed a directory that had no row, with a
\* non-directory entry in the upload root
C5_Witness ==
    /\ lastVisit.lookup = "absent"
    /\ lastVisit.rm = "ok"
    /\ lastVisit.entry \notin DOMAIN fs
    /\ rootFiles # {}

Valid(r) == r.total_chunks >= 1 /\ r.chunk_number \in 1..r.total_chunks
Finished(r) == r.pc = "idle" /\ r.resp # "none"
IsError(r) == r.resp \in {"error400", "error500"}

\* C6: of two requests of one session that found every index present and
\* were in the completion step at the same time, exactly one moves a blob
\* and writes the file list, and both answer done
C6_AssembledOnce ==
    \A g, h \in Handlers :
        (/\ g < h
         /\ req[g].file_id = req[h].file_id
         /\ req[g].raced /\ req[h].raced
         /\ req[g].complete /\ req[h].complete
         /\ Finished(req[g]) /\ Finished(req[h]))
        => /\ req[g].recorded # req[h].recorded
           /\ req[g].moved # req[h].moved
           /\ req[g].resp = "done" /\ req[h].resp = "done"

\* C7: a request that writes a chunk index again while an index of 1..n is
\* missing is answered pending and starts no assembly, and a completed
\* session stored the last-written chunks in index order
C7_RedeliveryPending ==
    \A h \in Handlers :
        LET r == req[h] IN
        /\ (Finished(r) /\ Valid(r) /\ r.share.found
                /\ r.redelivered /\ ~r.complete)
            => (r.resp = "pending" /\ ~r.assembling)
        /\ (Valid(r) /\ r.resp = "done") => r.stored

\* C8: the request that makes 1..n present answers done with the file
\* moved and recorded, and a request that leaves an index missing answers
\* pending
C8_AnyOrderCompletes ==
    \A h \in Handlers :
        LET r == req[h] IN
        (Finished(r) /\ Valid(r) /\ r.share.found)
        => /\ (~r.before /\ r.complete)
                => (r.resp = "done" /\ r.moved /\ r.recorded)
           /\ ~r.complete => r.resp = "pending"

\* C9: a request is in the assembly only if staging held every index 1..n
\* when it got there
C9_AssemblyOnlyWhenComplete ==
    \A h \in Handlers :
        LET r == req[h] IN
        (r.total_chunks >= 1 /\ r.assembling) => r.complete

\* C10: a request with index > totalChunks or a non-positive index or
\* total is answered with an error, starts no assembly and adds no file
C10_InvalidIndexRejected ==
    \A h \in Handlers :
        LET r == req[h] IN
        (r.file_id # "" /\ ~Valid(r))
        => /\ ~r.assembling /\ ~r.moved /\ ~r.recorded
           /\ Finished(r) => IsError(r)

\* C11: an assembly started while a chunk file of 1..n is missing ends
\* the request with an error and changes no staged chunk file, no token
\* directory and no row
C11_FailedAssemblyKeepsStaging ==
    [][\A h \in Handlers :
        (/\ ChunkAssemble(h)
         /\ req[h].file_id \in DOMAIN staging
         /\ ~AllPresent(staging[req[h].file_id], req[h].total_chunks))
        => /\ req'[h].resp = "error500"
           /\ \A i \in ChunkNumbers :
                ChunkName(i) \in DOMAIN staging[req[h].file_id]
                => /\ req[h].file_id \in DOMAIN staging'
                   /\ ChunkName(i) \in DOMAIN staging'[req[h].file_id]
                   /\ staging'[req[h].file_id][ChunkName(i)]
                        = staging[req[h].file_id][ChunkName(i)]
           /\ fs' = fs
           /\ db' = db]_vars

\* C13: the move of a completed session changes no blob the token
\* directory already held, and the name then recorded is in the file list
C13_CompletionKeepsEarlierBlob ==
    [][\A h \in Handlers :
        /\ (ChunkMove(h) /\ req[h].share.token \in DOMAIN fs)
            => \A n \in DOMAIN fs[req[h].share.token] :
                /\ n \in DOMAIN fs'[req[h].share.token]
                /\ fs'[req[h].share.token][n] = fs[req[h].share.token][n]
        /\ (ChunkRecord(h) /\ req[h].share.token \in DOMAIN db)
            => \E i \in 1..Len(db'[req[h].share.token].files) :
                db'[req[h].share.token].files[i] = req[h].filename]_vars

Distinct(xs) == \A i, j \in 1..Len(xs) : i # j => xs[i] # xs[j]
\* the files of a request that a save path stores: those with a name that
\* secure_filename leaves something of
Storable(f) == f.filename # "" /\ secure_filename(f.filename) # ""
Kept(files) == SelectSeq(files, Storable)
\* <name>_<k><ext>
Suffixed(n, k) == SplitExt(n).name \o "_" \o ToString(k) \o SplitExt(n).ext
\* the name a save of n into the directory of t is to be stored under: n,
\* or n with suffix k at the k-th collision
ExpectedName(t, n) ==
    LET k == Cardinality({m \in DOMAIN fs[t] :
                m \in {n} \cup {Suffixed(n, j) : j \in 1..MaxFiles}})
    IN IF t \notin DOMAIN fs \/ k = 0 THEN n ELSE Suffixed(n, k)
\* a save of files into the directory of t that returned names: one
\* distinct name per stored file, each blob under its name with the content
\* sent, every blob that was there unchanged, and a single file stored
\* under its name or, at the k-th collision, its name with suffix k
SavedApart(t, files, names) ==
    /\ Len(names) = Len(Kept(files))
    /\ Distinct(names)
    /\ \A i \in 1..Len(names) :
        /\ names[i] \in DOMAIN fs'[t]
        /\ fs'[t][names[i]] = <<Kept(files)[i].data>>
    /\ t \in DOMAIN fs =>
        \A n \in DOMAIN fs[t] : n \in DOMAIN fs'[t] /\ fs'[t][n] = fs[t][n]
    /\ Len(names) = 1 =>
        names[1] = ExpectedName(t, secure_filename(Kept(files)[1].filename))

\* C12: a save never replaces a blob: every save_uploaded_files call and
\* every API upload that stores all its files leaves the earlier blobs as
\* they were and stores each file under a name of its own, a.txt then
\* a_1.txt then a_2.txt for colliding saves of a.txt
C12_SaveNeverOverwrites ==
    [][\A t \in Tokens, files \in UploadLists :
        /\ SaveUploadedFiles(t, files) => SavedApart(t, files, saved_files')
        /\ (/\ UploadApi(t, files, 1, 0)
            /\ \A i \in 1..Len(files) :
                files[i].filename # "" => Storable(files[i]))
            => SavedApart(t, files, db'[t].files)]_vars

\* the same for save_uploaded_files alone
C12_RenamingSave ==
    [][\A t \in Tokens, files \in UploadLists :
        SaveUploadedFiles(t, files) => SavedApart(t, files, saved_files')]_vars

\* the names secure_filename makes of the names sent, and their renamings
SafeNames ==
    LET sane == {secure_filename(n) : n \in RawNames} \ {""} IN
    sane \cup {Suffixed(n, k) : n \in sane, k \in 1..MaxFiles}

\* C14: whatever name is sent, the save paths write nothing into the upload
\* root, and every blob of a token directory is a file directly in it
\* under a sanitized name; a name that sanitizes to nothing stores no blob
C14_NamesStayInside ==
    /\ rootFiles = StrayFiles
    /\ \A t \in DOMAIN fs : \A n \in DOMAIN fs[t] :
        /\ n \in SafeNames
        /\ Target(n) = [kind |-> "inside", name |-> n]
    /\ \A h \in Handlers :
        (req[h].file_id # "" /\ req[h].filename = "") => ~req[h].moved

\* "../secret" was stored as secret in a token directory, and a chunk
\* upload whose name sanitizes to nothing was refused at the assembly
C14_Witness ==
    /\ \E t \in DOMAIN fs : "secret" \in DOMAIN fs[t]
    /\ \E h \in Handlers :
        /\ req[h].file_id # "" /\ req[h].filename = ""
        /\ req[h].resp = "error500"

\* C16: right after a share-token request creates a share, FileShare.get
\* of the token returns a record with the recipient given, no files, no
\* downloads, and, for a recipient that is not empty, an expiry of the
\* creation time plus the retention hours
C16_CreateThenGet ==
    [][\A t \in Tokens, r \in Recipients, h \in Retentions :
        RequestShareToken(t, r, h) =>
            /\ Get(t, FALSE)'.found
            /\ Get(t, FALSE)'.token = t
            /\ Get(t, FALSE)'.recipient_email = r
            /\ Get(t, FALSE)'.files = <<>>
            /\ Get(t, FALSE)'.download_count = 0
            /\ Get(t, FALSE)'.downloaded_files = <<>>
            /\ Get(t, FALSE)'.created_at = now
            /\ r # "" => Get(t, FALSE)'.expires_at = now + h]_vars

\* a share just created with a recipient and one hour of retention
C16_Witness ==
    \E t \in DOMAIN db :
        /\ db[t].recipient_email # ""
        /\ db[t].files = <<>>
        /\ db[t].created_at = now
        /\ db[t].expires_at = now + 1

\* C20: no file list of the registry holds a name twice
C20_FilesDistinct ==
    \A t \in DOMAIN db : Distinct(db[t].files)

Occurrences(x, xs) == Cardinality({i \in 1..Len(xs) : xs[i] = x})

\* C17: a mark_file_downloaded call leaves the row with exactly one entry
\* for the file in downloaded_files and with the download_count it had
C17_MarkFileIdempotent ==
    [][\A h \in Handlers :
        (DownloadMarkFile(h) /\ dl[h].token \in DOMAIN db) =>
            /\ Occurrences(dl[h].filename,
                           db'[dl[h].token].downloaded_files) = 1
            /\ db'[dl[h].token].download_count
                = db[dl[h].token].download_count]_vars

\* C18: no step lowers the download_count of a row
C18_CountNeverDecreases ==
    [][\A t \in DOMAIN db \cap DOMAIN db' :
        db'[t].download_count >= db[t].download_count]_vars

\* C19: no step takes a file name out of the downloaded_files of a row
C19_DownloadedOnlyGrows ==
    [][\A t \in DOMAIN db \cap DOMAIN db' : \A n \in FileNames :
        InList(n, db[t].downloaded_files)
            => InList(n, db'[t].downloaded_files)]_vars


\* C21: every file name listed in a share record names a file present in
\* that token's directory
C21_ListedFilesPresent ==
    \A t \in DOMAIN db :
        \A i \in 1..Len(db[t].files) : OnDisk(t, db[t].files[i])

\* C22: for every record with a recipient that is not empty, expires_at is
\* strictly greater than created_at
C22_ExpiryAfterCreation ==
    \A t \in DOMAIN db :
        db[t].recipient_email # "" => db[t].expires_at > db[t].created_at

\* C23: set_recipient overwrites the recipient and the expiry: right after
\* notify_share sets a recipient, FileShare.get returns that recipient and
\* an expires_at of the time of the call plus the retention hours, so the
\* share expires once that time has passed; nothing else of the record
\* changes
C23_SetRecipientOverwrites ==
    [][\A t \in Tokens, r \in Recipients, h \in Retentions, f \in BOOLEAN :
        NotifyShare(t, r, h, f) =>
            /\ Get(t, FALSE)'.found
            /\ Get(t, FALSE)'.recipient_email = r
            /\ Get(t, FALSE)'.expires_at = now + h
            /\ is_expired(Get(t, FALSE)', now + h + 1)
            /\ ~is_expired(Get(t, FALSE)', now + h)
            /\ Get(t, FALSE)'.files = Get(t, FALSE).files
            /\ Get(t, FALSE)'.created_at = Get(t, FALSE).created_at
            /\ Get(t, FALSE)'.downloaded = Get(t, FALSE).downloaded
            /\ Get(t, FALSE)'.download_count = Get(t, FALSE).download_count
            /\ Get(t, FALSE)'.downloaded_files
                = Get(t, FALSE).downloaded_files]_vars

\* a share uploaded with no recipient at an earlier time that has since
\* been given one, with an expiry counted from the later time
C23_Witness ==
    \E t \in DOMAIN db :
        /\ db[t].recipient_email # ""
        /\ db[t].files # <<>>
        /\ db[t].created_at < now
        /\ db[t].expires_at = now + 1

\* C24: after delete_by_token has returned for a share that had its record
\* and its directory, with success or with a failure of the directory
\* removal or of the registry delete, either both the record and the
\* directory are still there or both are gone
C24_DeleteAtomic ==
    [][\A t \in Tokens, io \in BOOLEAN, f \in BOOLEAN :
        (DeleteByToken(t, io, f) /\ t \in DOMAIN db /\ t \in DOMAIN fs) =>
            ((t \in DOMAIN db') <=> (t \in DOMAIN fs'))]_vars

\* C25: get_all_active returns exactly the shares for which is_expired is
\* false, get_active_count their number, and get_expired_shares exactly
\* those for which is_expired is true
C25_ListsFollowIsExpired ==
    LET live == {t \in DOMAIN db : ~is_expired(Row(t), now)} IN
    /\ get_all_active(db, now, FALSE) = live
    /\ get_active_count(db, now, FALSE) = Cardinality(live)
    /\ get_expired_shares(db, now, FALSE) = DOMAIN db \ live

\* C26: a storage failure inside a registry operation is reported to its
\* caller as an error and never as a normal result: a lookup that fails for
\* a share that exists is not answered like a missing share (404), a
\* download whose mark_downloaded update failed is not served as if the
\* update had been made, and a failing list query does not return the empty
\* list while there are shares to list
C26_StorageFailureReported ==
    [][/\ \A h \in Handlers, t \in DOMAIN db, n \in FileNames :
            DownloadFile(h, t, n, TRUE) =>
                /\ Get(t, TRUE) # NoShare
                /\ dl'[h].resp # "404"
       /\ \A h \in Handlers :
            DownloadMarkDownloaded(h, TRUE) => dl'[h].resp # "served"
       /\ get_all_active(db, now, FALSE) # {}
            => get_all_active(db, now, TRUE) # {}]_vars

\* C27: the number the sweep returns is the number of directories this
\* sweep removed: it starts at 0, each visit adds one exactly when the
\* visited directory was there before the visit and is gone after it, and
\* nothing else changes it
C27_CountIsRemoved ==
    [][sweep'.cleaned_count =
        IF sweep.pc = "idle" /\ sweep'.pc = "visiting" THEN 0
        ELSE sweep.cleaned_count
             + Cardinality({e \in Visited :
                              e \in DOMAIN fs /\ e \notin DOMAIN fs'})]_vars

\* a sweep about to return 1 after the removal of a directory
C27_Witness ==
    /\ sweep.pc = "visiting"
    /\ sweep.todo = {}
    /\ sweep.cleaned_count = 1
    /\ lastVisit.rm = "ok"
    /\ lastVisit.entry \notin DOMAIN fs

\* C28: every mark_downloaded call that completes, by a request that
\* loaded the share with FileShare.get beforehand, raises the stored
\* download_count of its share by exactly one, whatever other requests did
\* in between
C28_NoLostCount ==
    [][\A h \in Handlers :
        (DownloadMarkDownloaded(h, FALSE) /\ dl[h].token \in DOMAIN db) =>
            db'[dl[h].token].download_count
                = db[dl[h].token].download_count + 1]_vars

\* C29: when two chunk sessions for the same share with different file
\* names have both completed, the file list of the share holds both names
C29_BothNamesRecorded ==
    \A h, g \in Handlers :
        (/\ req[h].resp = "done" /\ req[g].resp = "done"
         /\ req[h].file_id # req[g].file_id
         /\ req[h].filename # req[g].filename
         /\ req[h].share.token = req[g].share.token
         /\ req[h].share.token \in DOMAIN db)
        => /\ InList(req[h].filename, db[req[h].share.token].files)
           /\ InList(req[g].filename, db[req[h].share.token].files)

\* the stored record of t is the same before and after the step, apart
\* from the field the step owns
OnlyFiles(t) == db'[t] = [db[t] EXCEPT !.files = db'[t].files]
OnlyDownloadedFiles(t) ==
    db'[t] = [db[t] EXCEPT !.downloaded_files = db'[t].downloaded_files]
OnlyExpiresAt(t) == db'[t] = [db[t] EXCEPT !.expires_at = db'[t].expires_at]

\* C30: each registry mutation changes only the fields of its own step:
\* the recording of a chunk upload's file only files,
\* mark_file_downloaded only downloaded_files, the reactivation only
\* expires_at, whatever other requests stored since this request read the
\* record
C30_OwnFieldsOnly ==
    [][/\ \A h \in Handlers :
            (ChunkRecord(h) /\ req[h].share.token \in DOMAIN db)
                => OnlyFiles(req[h].share.token)
       /\ \A h \in Handlers :
            (DownloadMarkFile(h) /\ dl[h].token \in DOMAIN db)
                => OnlyDownloadedFiles(dl[h].token)
       /\ \A t \in DOMAIN db, r \in Retentions, f \in BOOLEAN :
            ReactivateShare(t, r, f) => OnlyExpiresAt(t)]_vars

\* whether directory e has no record or the record of an expired share
ExpiredOrOrphan(e) == e \notin DOMAIN db \/ is_expired(Row(e), now)

\* C31: a failure to remove one directory does not end the sweep and is not
\* rolled back: after every visit the sweep goes on with the other entries
\* of its listing and returns only when none is left, the visit leaves every
\* other directory as it was, a directory whose removal failed is still
\* there and is not counted, and an expired or orphaned directory whose
\* removal did not fail is gone
C31_FailureIsolated ==
    [][/\ \A e \in Visited :
            /\ sweep'.pc = "visiting"
            /\ sweep'.todo = sweep.todo \ {e}
            /\ \A d \in DOMAIN fs \ {e} : d \in DOMAIN fs' /\ fs'[d] = fs[d]
            /\ lastVisit'.rm = "failed" =>
                /\ e \in DOMAIN fs'
                /\ sweep'.cleaned_count = sweep.cleaned_count
            /\ (e \in DOMAIN fs /\ ExpiredOrOrphan(e)
                    /\ lastVisit'.rm # "failed") => e \notin DOMAIN fs'
       /\ (sweep.pc = "visiting" /\ sweep'.pc = "idle") => sweep.todo = {}]_vars

\* a sweep that has removed the directory of an expired share after its
\* removal of the orphan directory failed
C31_Witness ==
    /\ sweep.pc = "visiting"
    /\ \E d \in OrphanDirs : d \in DOMAIN fs /\ d \notin sweep.todo
    /\ lastVisit.entry \in Tokens
    /\ lastVisit.expired
    /\ lastVisit.rm = "ok"
    /\ lastVisit.entry \notin DOMAIN fs
    /\ sweep.cleaned_count = 1

\* whether scheduler thread k exists and is at pc
AtPc(k, pc) == k \in DOMAIN sched.loops /\ sched.loops[k].pc = pc

\* C32: an error raised by an iteration of the scheduler loop does not end
\* the loop: a thread ends only when self.running is false, and a thread in
\* the retry delay after an error begins a further iteration unless the
\* scheduler is stopped
C32_LoopSurvivesErrors ==
    /\ [][\A k \in DOMAIN sched.loops :
            (sched.loops[k].pc # "dead" /\ sched'.loops[k].pc = "dead")
                => ~sched.running]_vars
    /\ \A k \in 1..MaxThreads :
        [](AtPc(k, "retry") => <>(AtPc(k, "iterate") \/ ~sched.running))

\* a scheduler thread in a new iteration after the retry delay
C32_Witness ==
    \E k \in DOMAIN sched.loops :
        /\ sched.loops[k].pc = "iterate"
        /\ sched.loops[k].after = "retry"
        /\ sched.running

\* the scheduler threads that have not ended
AliveLoops == {k \in DOMAIN sched.loops : sched.loops[k].pc # "dead"}

\* C33: whatever the interleaving of start() and stop() calls, at most one
\* scheduler thread is alive at any time, and when a stop() call returns no
\* scheduler thread is alive
C33_OneLoop ==
    [][/\ Cardinality(AliveLoops') <= 1
       /\ \A h \in Handlers :
            (sched.call[h].pc = "joining" /\ sched'.call[h].pc = "idle")
                => AliveLoops' = {}]_vars

\* C34: a download request that races with the removal of its share ends
\* in one of three ways only: the file is served, or the request fails with
\* 404 or with 410; and no request is served a file of a share whose
\* directory is gone
C34_DownloadOutcomes ==
    [][\A h \in Handlers :
        /\ dl'[h].resp \in {"none", "served", "404", "410"}
        /\ (dl[h].pc # "idle" /\ dl'[h].resp = "served"
                /\ dl[h].kind = "file")
            => OnDisk(dl[h].token, dl[h].filename)]_vars

\* C35: a chunk session that completes after the record of its share was
\* deleted does not bring the record back (no step makes a record for a
\* token that was handed out and has none), and the directory it made has
\* no record: a sweep that starts afterwards has it in its listing, and
\* when the sweep visits it and the removal does not fail it is gone
C35_LateCompletionLeavesOrphan ==
    [][/\ \A t \in used : t \notin DOMAIN db => t \notin DOMAIN db'
       /\ \A h \in Handlers :
            (ChunkRecord(h) /\ req[h].share.token \notin DOMAIN db)
                => ~Get(req[h].share.token, FALSE)'.found
       /\ (sweep.pc = "idle" /\ sweep'.pc = "visiting")
            => \A t \in DOMAIN fs \ DOMAIN db : t \in sweep'.todo
       /\ \A t \in Visited :
            (t \in used /\ t \in DOMAIN fs /\ t \notin DOMAIN db
                /\ lastVisit'.rm # "failed") => t \notin DOMAIN fs']_vars

\* a chunk upload answered done for a share that was deleted while the
\* request ran, whose directory the sweep has then removed as an orphan
C35_Witness ==
    \E h \in Handlers :
        /\ req[h].resp = "done"
        /\ req[h].moved
        /\ req[h].share.token \notin DOMAIN db
        /\ req[h].share.token \notin DOMAIN fs
        /\ lastVisit.entry = req[h].share.token
        /\ lastVisit.lookup = "absent"
        /\ lastVisit.rm = "ok"

\* C36: an iteration of the scheduler loop that runs while the auto_cleanup
\* setting is false calls no sweep and removes no directory and no record;
\* the manual trigger lists the whole uploads folder whatever the setting
C36_AutoCleanupOff ==
    [][/\ \A k \in DOMAIN sched.loops, lf \in BOOLEAN, err \in BOOLEAN :
            (SchedIterate(k, lf, err) /\ ~settings.auto_cleanup) =>
                /\ sched'.loops[k].pc # "sweeping"
                /\ UNCHANGED <<db, fs, sweep>>
       /\ (SweepStart /\ ~settings.auto_cleanup) =>
                sweep'.todo = DOMAIN fs \cup rootFiles]_vars

\* C37: an API upload that does not succeed (the record it made has no
\* file stored) leaves the registry and the uploads folder as they were
\* before the request
C37_FailedUploadLeavesNothing ==
    [][\A t \in Tokens, files \in UploadLists, fa \in {0, 1, 2} :
        (UploadApi(t, files, 1, fa) /\ db'[t].files = <<>>) =>
            /\ db' = db
            /\ fs' = fs]_vars

\* C38: for every fileId a client sends, the chunk files and the assembled
\* file of the session are written beneath the staging root, and two
\* different fileIds never have the same session directory
C38_SessionsStayInStaging ==
    /\ \A fid \in FileIds :
        TempDir(fid) \in DOMAIN staging => BeneathStaging(fid)
    /\ \A fid, gid \in FileIds :
        (fid # gid /\ TempDir(fid) \in DOMAIN staging)
            => TempDir(gid) # TempDir(fid)

====
